---- MODULE Spec2Model ----
(***************************************************************************)
(* A model of the pdf_chunker scripts:                                     *)
(*   - the annotation loops of gemini_analyzer.py (profile variant) and    *)
(*     pdf_table_analyzer.py (page variant), under SpecAnnot;              *)
(*   - split_text_into_chunks of pdf_chunker.py, under SpecChunk;          *)
(*   - split_text_by_player of gemini_analyzer.py, under SpecSplit;        *)
(*   - cleanse_name of consolidate_analysis.py, under SpecCleanse;         *)
(*   - create_analysis_lookup of consolidate_analysis.py, under SpecLookup;*)
(*   - main of consolidate_analysis.py, with consolidate_analysis_files    *)
(*     and save_consolidated_analysis, under SpecMain.                     *)
(***************************************************************************)
EXTENDS Integers, Sequences, FiniteSets, TLC

VARIABLES
    \* ---- annotation loops ----
    variant,             \* "profile" (gemini_analyzer) or "page" (pdf_table_analyzer)
    n,                   \* len(player_profiles) / end_page - start_page + 1
    i,                   \* 0-based loop index (page_num - start_page in the page loop)
    pc,                  \* position inside the loop body
    request_count,       \* gemini_analyzer.py: request_count
    analysis,            \* profile['analysis'] of each profile (1-based position)
    analyzed_players,    \* gemini_analyzer.py: analyzed_players, as profile positions
    all_skills_analysis, \* pdf_table_analyzer.py: all_skills_analysis
    pending,             \* page variant: the value returned by analyze_page_with_gemini
    \* ---- history of the run (observations, not program state) ----
    calls,               \* generate_content calls made for each unit
    first,               \* outcome of each unit's first call
    second,              \* outcome of each unit's retry call
    unitPauses,          \* time.sleep(65) calls between a unit's start and the next unit's start
    sincePause,          \* generate_content calls since the last time.sleep(65) (or the start)
    writes,              \* assignments to profile['analysis'] of each profile
    faulty,              \* units that met a non-nominal outcome so far
    \* ---- split_text_into_chunks ----
    text, chunk_size, chunk_overlap, start_index, chunk_id, chunks, cpc,
    \* ---- split_text_by_player ----
    section_text, player_profiles, spc,
    \* ---- cleanse_name ----
    name, cleaned_once, cleaned_twice, npc,
    \* ---- create_analysis_lookup ----
    player_analyses,     \* the argument: a list of records
    lookup_map,          \* consolidate_analysis.py: lookup_map
    lidx,                \* 1-based position of "item" in player_analyses
    lpc,                 \* position inside create_analysis_lookup
    \* ---- consolidate_analysis.main ----
    directory,           \* the files os.listdir returns, in its order
    fidx,                \* 1-based position of "filename" in the listing
    all_player_analyses, \* consolidate_analysis_files: all_player_analyses
    all_analyses,        \* main: the value consolidate_analysis_files returned
    output_written,      \* consolidated_analysis.json was written by this run
    mpc                  \* position inside main

annotVars == <<variant, n, i, pc, request_count, analysis, analyzed_players,
               all_skills_analysis, pending, calls, first, second, unitPauses,
               sincePause, writes, faulty>>
chunkVars == <<text, chunk_size, chunk_overlap, start_index, chunk_id, chunks, cpc>>
splitVars == <<section_text, player_profiles, spc>>
cleanseVars == <<name, cleaned_once, cleaned_twice, npc>>
lookupVars == <<player_analyses, lookup_map, lidx, lpc>>
mainVars == <<directory, fidx, all_player_analyses, all_analyses, output_written, mpc>>
vars == <<annotVars, chunkVars, splitVars, cleanseVars, lookupVars, mainVars>>

(***************************************************************************)
(* Values a part of the model holds while another part is being checked.   *)
(***************************************************************************)
IdleAnnot ==
    /\ variant = "idle" /\ n = 0 /\ i = 0 /\ pc = "idle" /\ request_count = 0
    /\ analysis = <<>> /\ analyzed_players = <<>> /\ all_skills_analysis = <<>>
    /\ pending = [kind |-> "idle", att |-> 0] /\ calls = <<>> /\ first = <<>> /\ second = <<>>
    /\ unitPauses = <<>> /\ sincePause = 0 /\ writes = <<>> /\ faulty = 0

IdleChunk ==
    /\ text = <<>> /\ chunk_size = 0 /\ chunk_overlap = 0 /\ start_index = 0
    /\ chunk_id = 0 /\ chunks = <<>> /\ cpc = "idle"

IdleSplit ==
    /\ section_text = <<>> /\ player_profiles = <<>> /\ spc = "idle"

IdleCleanse ==
    /\ name = <<>> /\ cleaned_once = <<>> /\ cleaned_twice = <<>> /\ npc = "idle"

\* The empty dict.
EmptyMap == [key \in {} |-> 0]

\* The value of a variable of main that holds None, and one that holds a list.
NoneValue == [none |-> TRUE, list |-> <<>>]
ListValue(items) == [none |-> FALSE, list |-> items]

IdleLookup ==
    /\ player_analyses = <<>> /\ lookup_map = EmptyMap /\ lidx = 0 /\ lpc = "idle"

IdleMain ==
    /\ directory = <<>> /\ fidx = 0 /\ all_player_analyses = <<>>
    /\ all_analyses = NoneValue /\ output_written = FALSE /\ mpc = "idle"

(***************************************************************************)
(*                       THE ANNOTATION LOOPS                              *)
(***************************************************************************)

\* Largest batch (profiles or pages) of a run.
MaxUnits == 15
\* Most units of one run that meet a non-nominal outcome (an error, a rate
\* limit, a failed extraction, an unusable response).
MaxFaultyUnits == 1

\* "if request_count % 14 == 0" / "(page_num - start_page + 1) % 14 == 0"
ThrottleEvery == 14

\* profile['analysis'] values.
NoAnalysis == [kind |-> "none", att |-> 0]
ResponseText(att) == [kind |-> "text", att |-> att]
ErrorDuringAnalysis == [kind |-> "error_during_analysis", att |-> 1]
ErrorAfterRetry == [kind |-> "error_after_retry", att |-> 2]

\* Outcomes of model.generate_content(...) followed by response.text:
\*   "ok"      a response whose text is usable (in the page variant: parses as JSON)
\*   "badjson" a response whose text does not parse as JSON (page variant)
\*   "empty"   a response whose text is the empty string (page variant)
\*   "blocked" generate_content returned, response.text raised (profile variant)
\*   "rate"    exceptions.ResourceExhausted
\*   "err"     any other exception
ProfFirstOutcomes == {"ok", "blocked", "rate", "err"}
ProfRetryOutcomes == {"ok", "err"}
PageFirstOutcomes == {"ok", "badjson", "empty", "rate", "err"}
PageRetryOutcomes == {"ok", "badjson", "empty", "err"}

\* The call returned a response text (no exception reached a handler).
Succeeded(o) == o \in {"ok", "badjson", "empty"}

\* The value analyze_page_with_gemini returned for the current page: the text
\* of the response to call att, or None.
NoResult == [kind |-> "None", att |-> 0]
Returned(o, att) == IF Succeeded(o) THEN [kind |-> o, att |-> att] ELSE NoResult

\* A non-nominal outcome may be drawn while the run's budget of faulty units lasts.
MayDraw(o) == o = "ok" \/ faulty < MaxFaultyUnits
Charge(o) == IF o = "ok" THEN faulty ELSE faulty + 1

\* The unit being processed, as a 1-based position.
Unit == i + 1

\* Mutant: the retrying handler catches every exception.
IsRateLimit_AnyException(o) == ~Succeeded(o)

\* "except exceptions.ResourceExhausted": the handler that sleeps and retries.
IsRateLimit(o) == o = "rate"

\* End of a loop iteration: the for loop takes the next unit or ends.
NextUnit(body) ==
    /\ i' = i + 1
    /\ pc' = IF i + 1 < n THEN body ELSE "done"

InitAnnot ==
    /\ variant \in {"profile", "page"}
    /\ n \in 0..MaxUnits
    /\ i = 0
    /\ pc = IF n = 0 THEN "done" ELSE IF variant = "profile" THEN "call" ELSE "extract"
    /\ request_count = 0
    /\ analysis = [u \in 1..n |-> NoAnalysis]
    /\ analyzed_players = <<>>
    /\ all_skills_analysis = <<>>
    /\ pending = NoResult
    /\ calls = [u \in 1..n |-> 0]
    /\ first = [u \in 1..n |-> "none"]
    /\ second = [u \in 1..n |-> "none"]
    /\ unitPauses = [u \in 1..n |-> 0]
    /\ sincePause = 0
    /\ writes = [u \in 1..n |-> 0]
    /\ faulty = 0

\* A generate_content call for the current unit.
CountCall ==
    /\ calls' = [calls EXCEPT ![Unit] = @ + 1]
    /\ sincePause' = sincePause + 1

\* time.sleep(65) while the current unit is being processed.
Sleep65 ==
    /\ unitPauses' = [unitPauses EXCEPT ![Unit] = @ + 1]
    /\ sincePause' = 0

\* profile['analysis'] = v; analyzed_players.append(profile)
SetAnalysis(v) ==
    /\ analysis' = [analysis EXCEPT ![Unit] = v]
    /\ writes' = [writes EXCEPT ![Unit] = @ + 1]
    /\ analyzed_players' = Append(analyzed_players, Unit)

\* ---------------- gemini_analyzer.analyze_players_with_gemini ------------

\* "if request_count % 14 == 0 and i < len(player_profiles) - 1"
ProfThrottleDue(rc) == rc % ThrottleEvery = 0 /\ i < n - 1

\* The try block of the loop body: the first call, and the handler its outcome
\* selects. request_count += 1 runs once generate_content has returned.
ProfGenerate ==
    /\ variant = "profile" /\ pc = "call"
    /\ \E o \in ProfFirstOutcomes :
        /\ MayDraw(o)
        /\ faulty' = Charge(o)
        /\ first' = [first EXCEPT ![Unit] = o]
        /\ CountCall
        /\ request_count' = IF o \in {"ok", "blocked"} THEN request_count + 1
                                                      ELSE request_count
        /\ IF o = "ok"
              THEN /\ SetAnalysis(ResponseText(1))
                   /\ IF ProfThrottleDue(request_count + 1)
                         THEN pc' = "throttle" /\ i' = i
                         ELSE NextUnit("call")
              ELSE IF IsRateLimit(o)
                     THEN /\ pc' = "rl_sleep" /\ i' = i
                          /\ UNCHANGED <<analysis, writes, analyzed_players>>
                     ELSE /\ SetAnalysis(ErrorDuringAnalysis)
                          /\ NextUnit("call")
    /\ UNCHANGED <<variant, n, all_skills_analysis, pending, second, unitPauses>>
    /\ UNCHANGED <<chunkVars, splitVars, cleanseVars, lookupVars, mainVars>>

\* The proactive pause after a successful call.
ProfThrottleSleep ==
    /\ variant = "profile" /\ pc = "throttle"
    /\ Sleep65
    /\ NextUnit("call")
    /\ UNCHANGED <<variant, n, request_count, analysis, analyzed_players,
                   all_skills_analysis, pending, calls, first, second, writes, faulty>>
    /\ UNCHANGED <<chunkVars, splitVars, cleanseVars, lookupVars, mainVars>>

\* A rate-limit handler that records an error string before it retries.
ProfRateLimitSleep_WritesError ==
    /\ variant = "profile" /\ pc = "rl_sleep"
    /\ Sleep65
    /\ SetAnalysis(ErrorDuringAnalysis)
    /\ pc' = "retry"
    /\ UNCHANGED <<variant, n, i, request_count,
                   all_skills_analysis, pending, calls, first, second, faulty>>
    /\ UNCHANGED <<chunkVars, splitVars, cleanseVars, lookupVars, mainVars>>

\* except exceptions.ResourceExhausted: time.sleep(65)
ProfRateLimitSleep ==
    /\ variant = "profile" /\ pc = "rl_sleep"
    /\ Sleep65
    /\ pc' = "retry"
    /\ UNCHANGED <<variant, n, i, request_count, analysis, analyzed_players,
                   all_skills_analysis, pending, calls, first, second, writes, faulty>>
    /\ UNCHANGED <<chunkVars, splitVars, cleanseVars, lookupVars, mainVars>>

\* The retry of the same profile, inside the rate-limit handler.
ProfRetry ==
    /\ variant = "profile" /\ pc = "retry"
    /\ \E o \in ProfRetryOutcomes :
        /\ second' = [second EXCEPT ![Unit] = o]
        /\ CountCall
        /\ SetAnalysis(IF o = "ok" THEN ResponseText(2) ELSE ErrorAfterRetry)
    /\ NextUnit("call")
    /\ UNCHANGED <<variant, n, request_count, all_skills_analysis, pending, first,
                   unitPauses, faulty>>
    /\ UNCHANGED <<chunkVars, splitVars, cleanseVars, lookupVars, mainVars>>

\* ---------------- pdf_table_analyzer.main / analyze_page_with_gemini -----

\* extract_page_content, then "if not table_image or not page_text: continue".
PageExtract ==
    /\ variant = "page" /\ pc = "extract"
    /\ \E o \in {"ok", "nocontent"} :
        /\ MayDraw(o)
        /\ faulty' = Charge(o)
        /\ IF o = "ok" THEN pc' = "call" /\ i' = i
                       ELSE NextUnit("extract")
    /\ UNCHANGED <<variant, n, request_count, analysis, analyzed_players,
                   all_skills_analysis, pending, calls, first, second, unitPauses,
                   sincePause, writes>>
    /\ UNCHANGED <<chunkVars, splitVars, cleanseVars, lookupVars, mainVars>>

\* analyze_page_with_gemini: the first call.
PageGenerate ==
    /\ variant = "page" /\ pc = "call"
    /\ \E o \in PageFirstOutcomes :
        /\ MayDraw(o)
        /\ faulty' = Charge(o)
        /\ first' = [first EXCEPT ![Unit] = o]
        /\ CountCall
        /\ IF IsRateLimit(o)
              THEN pc' = "rl_sleep" /\ UNCHANGED pending
              ELSE pc' = "parse" /\ pending' = Returned(o, 1)
    /\ UNCHANGED <<variant, n, i, request_count, analysis, analyzed_players,
                   all_skills_analysis, second, unitPauses, writes>>
    /\ UNCHANGED <<chunkVars, splitVars, cleanseVars, lookupVars, mainVars>>

\* analyze_page_with_gemini: except exceptions.ResourceExhausted: time.sleep(65)
PageRateLimitSleep ==
    /\ variant = "page" /\ pc = "rl_sleep"
    /\ Sleep65
    /\ pc' = "retry"
    /\ UNCHANGED <<variant, n, i, request_count, analysis, analyzed_players,
                   all_skills_analysis, pending, calls, first, second, writes, faulty>>
    /\ UNCHANGED <<chunkVars, splitVars, cleanseVars, lookupVars, mainVars>>

\* analyze_page_with_gemini: the retry inside the rate-limit handler.
PageRetry ==
    /\ variant = "page" /\ pc = "retry"
    /\ \E o \in PageRetryOutcomes :
        /\ second' = [second EXCEPT ![Unit] = o]
        /\ CountCall
        /\ pending' = Returned(o, 2)
    /\ pc' = "parse"
    /\ UNCHANGED <<variant, n, i, request_count, analysis, analyzed_players,
                   all_skills_analysis, first, unitPauses, writes, faulty>>
    /\ UNCHANGED <<chunkVars, splitVars, cleanseVars, lookupVars, mainVars>>

\* "if analysis_json_string:" a None and an empty string are both skipped.
Truthy(r) == r.kind \in {"ok", "badjson"}

\* Mutant: a response that does not parse is appended all the same.
Parses_Always(r) == TRUE

\* clean_and_parse_json(analysis_json_string) returns (no JSONDecodeError).
Parses(r) == r.kind = "ok"

\* Mutant: the proactive pause also follows the last page.
PageThrottleDue_AlsoLast == (i + 1) % ThrottleEvery = 0

\* "if (page_num - start_page + 1) % 14 == 0 and page_num < end_page"
PageThrottleDue == (i + 1) % ThrottleEvery = 0 /\ i + 1 < n

\* main: the rest of the loop body once analyze_page_with_gemini has returned.
PageHandleResult ==
    /\ variant = "page" /\ pc = "parse"
    /\ all_skills_analysis' =
          IF Truthy(pending) /\ Parses(pending)
             THEN Append(all_skills_analysis, [page |-> Unit, att |-> pending.att])
             ELSE all_skills_analysis
    /\ pending' = NoResult
    /\ IF PageThrottleDue THEN pc' = "throttle" /\ i' = i
                           ELSE NextUnit("extract")
    /\ UNCHANGED <<variant, n, request_count, analysis, analyzed_players, calls,
                   first, second, unitPauses, sincePause, writes, faulty>>
    /\ UNCHANGED <<chunkVars, splitVars, cleanseVars, lookupVars, mainVars>>

\* main: the proactive pause after every 14th page.
PageThrottleSleep ==
    /\ variant = "page" /\ pc = "throttle"
    /\ Sleep65
    /\ NextUnit("extract")
    /\ UNCHANGED <<variant, n, request_count, analysis, analyzed_players,
                   all_skills_analysis, pending, calls, first, second, writes, faulty>>
    /\ UNCHANGED <<chunkVars, splitVars, cleanseVars, lookupVars, mainVars>>

NextAnnot ==
    \/ ProfGenerate
    \/ ProfThrottleSleep
    \/ ProfRateLimitSleep
    \/ ProfRetry
    \/ PageExtract
    \/ PageGenerate
    \/ PageRateLimitSleep
    \/ PageRetry
    \/ PageHandleResult
    \/ PageThrottleSleep

\* The initial states of SpecAnnot: the other parts of the model stay idle.
StartAnnot ==
    InitAnnot /\ IdleChunk /\ IdleSplit /\ IdleCleanse /\ IdleLookup /\ IdleMain

SpecAnnot ==
    /\ StartAnnot
    /\ [][NextAnnot]_vars

(***************************************************************************)
(*                 CLAIMS ABOUT THE ANNOTATION LOOPS                       *)
(***************************************************************************)

\* Units whose loop iteration has ended.
Completed == 1..i

\* The outcome of the last call made for a completed unit ("none": no call).
FinalOutcome(u) == IF first[u] = "rate" THEN second[u] ELSE first[u]

\* The unit's last call raised.
CallFailed(u) == FinalOutcome(u) \in {"err", "blocked"}

\* all_skills_analysis holds a record for page u.
InPageOutput(u) == \E k \in 1..Len(all_skills_analysis) : all_skills_analysis[k].page = u

\* analyzed_players holds profile u.
InProfileOutput(u) == \E k \in 1..Len(analyzed_players) : analyzed_players[k] = u

IsErrorString(a) == a.kind \in {"error_during_analysis", "error_after_retry"}

\* C1: a unit gets a second call if and only if its first call raised the
\* rate-limit error; no unit gets more than two calls; another error on the
\* first call is not retried; whatever the outcomes, the loop goes on until
\* every unit of the batch has been visited.
C1_RetryOnlyOnRateLimit ==
    /\ \A u \in 1..n :
         /\ calls[u] <= 2
         /\ calls[u] = 2 => first[u] = "rate"
         /\ first[u] \in {"err", "blocked"} => calls[u] = 1 /\ second[u] = "none"
    /\ \A u \in Completed : first[u] = "rate" => calls[u] = 2 /\ second[u] # "none"
    /\ i <= n
    /\ pc = "done" <=> i = n
    /\ pc # "done" => ENABLED NextAnnot
    /\ variant = "profile" => \A u \in Completed : calls[u] >= 1

\* A finished run in which a unit's first call hit the rate limit, its retry
\* failed as well, and the units after it were still served.
C1_Witness ==
    /\ pc = "done"
    /\ \E u, w \in 1..n :
         /\ u < w
         /\ first[u] = "rate" /\ second[u] = "err" /\ calls[u] = 2
         /\ first[w] = "ok" /\ calls[w] = 1

\* The cooldown pauses a completed unit is due: the one of its rate-limit
\* handler, and in the page loop the proactive one after every 14th page but the last.
PausesDue(u) ==
    IF variant = "page" /\ u % ThrottleEvery = 0 /\ u < n THEN 2 ELSE 1

\* The response of the unit's second call is what the output holds for it.
RecordedSecond(u) ==
    IF variant = "profile"
       THEN analysis[u] = ResponseText(2) /\ InProfileOutput(u)
       ELSE \A k \in 1..Len(all_skills_analysis) :
               all_skills_analysis[k].page = u => all_skills_analysis[k].att = 2

\* C2 as stated: after a rate-limit error on the first call and a usable
\* response to the second, the second response is recorded and exactly one
\* cooldown pause occurred during the unit, at every position of the batch.
C2_ExactlyOnePause ==
    \A u \in Completed :
        first[u] = "rate" /\ second[u] = "ok" =>
            /\ RecordedSecond(u) /\ (variant = "page" => InPageOutput(u))
            /\ unitPauses[u] = 1

\* C2 amended: the second response is recorded; one pause occurred in the
\* profile loop; in the page loop one, and a second one (the proactive pause)
\* when the page is the 14th, 28th, ... of the range and not its last.
C2_PausesAfterRateLimit ==
    \A u \in Completed :
        first[u] = "rate" /\ second[u] = "ok" =>
            /\ RecordedSecond(u) /\ (variant = "page" => InPageOutput(u))
            /\ unitPauses[u] = PausesDue(u)

\* A finished run in which a unit that is not the first of its batch was
\* served on its retry and a later unit was processed after it.
C2_Witness ==
    /\ pc = "done"
    /\ \E u \in 2..n :
         /\ u < n
         /\ first[u] = "rate" /\ second[u] = "ok" /\ calls[u] = 2
         /\ unitPauses[u] >= 1

\* C3 as stated: no more than 14 generate_content calls are made between two
\* consecutive cooldown pauses (or before the first one).
C3_AtMost14CallsBetweenPauses == sincePause <= ThrottleEvery

\* C4 as stated: in both variants a unit whose call failed is in the output
\* with an error string (the page output holds parsed responses only, so no
\* page's call may fail), and of the units that were sent to the API only
\* pages whose response did not parse are absent.
C4_FailuresEncoded ==
    \A u \in Completed :
        IF variant = "profile"
           THEN /\ InProfileOutput(u)
                /\ CallFailed(u) => IsErrorString(analysis[u])
           ELSE calls[u] >= 1 =>
                   /\ ~CallFailed(u)
                   /\ ~InPageOutput(u) => FinalOutcome(u) = "badjson"

\* C4 amended: in the profile loop every unit is in the output, with an error
\* string exactly when its last call failed; in the page loop the output
\* holds a page exactly when its last call returned text that parses, so
\* pages whose call failed are absent like the pages without content and
\* those with an empty or unparsable response.
C4_FailuresEncodedInProfilesOnly ==
    \A u \in Completed :
        IF variant = "profile"
           THEN /\ InProfileOutput(u)
                /\ CallFailed(u) <=> IsErrorString(analysis[u])
           ELSE InPageOutput(u) <=> FinalOutcome(u) = "ok"

\* A finished page run in which a page's retry failed and the page is absent
\* from the output, which holds the other pages.
C4_Witness ==
    /\ pc = "done" /\ variant = "page"
    /\ \E u, v \in 1..n :
         /\ first[u] = "rate" /\ second[u] = "err" /\ ~InPageOutput(u)
         /\ InPageOutput(v)

(***************************************************************************)
(*              pdf_chunker.split_text_into_chunks                         *)
(***************************************************************************)

\* Longest text, in characters.
MaxTextLen == 7
\* Largest chunk_size.
MaxChunkSize == 4

Min(a, b) == IF a <= b THEN a ELSE b

\* Python s[a:b] for 0 <= a <= b: the end is clamped to the length of s.
Slice(s, a, b) == SubSeq(s, a + 1, Min(b, Len(s)))

\* Mutant: the loop also runs when the start index equals the length.
LoopCondition_Inclusive(start, length) == start <= length

\* "while start_index < len(text)"
LoopCondition(start, length) == start < length

\* Mutant: the overlap is not subtracted.
NextStart_NoOverlap(start, size, overlap) == start + size

\* Mutant: the step is one character short.
NextStart_OneShort(start, size, overlap) == start + size - overlap - 1

\* "start_index += chunk_size - chunk_overlap"
NextStart(start, size, overlap) == start + size - overlap

\* The text is a sequence of pairwise distinct characters, so that a window
\* determines the offset it was cut at; 0 <= chunk_overlap < chunk_size.
InitChunk ==
    /\ \E len \in 0..MaxTextLen : text = [k \in 1..len |-> k]
    /\ chunk_size \in 1..MaxChunkSize
    /\ chunk_overlap \in 0..(chunk_size - 1)
    /\ start_index = 0
    /\ chunk_id = 1
    /\ chunks = <<>>
    /\ cpc = IF text = <<>> THEN "done" ELSE "loop"

\* One iteration of the while loop.
ChunkStep ==
    /\ cpc = "loop"
    /\ LoopCondition(start_index, Len(text))
    /\ chunks' = Append(chunks,
                        [chunk_id |-> chunk_id,
                         text |-> Slice(text, start_index, start_index + chunk_size)])
    /\ start_index' = NextStart(start_index, chunk_size, chunk_overlap)
    /\ chunk_id' = chunk_id + 1
    /\ UNCHANGED <<text, chunk_size, chunk_overlap, cpc>>
    /\ UNCHANGED <<annotVars, splitVars, cleanseVars, lookupVars, mainVars>>

\* The loop condition fails: return chunks.
ChunkReturn ==
    /\ cpc = "loop"
    /\ ~LoopCondition(start_index, Len(text))
    /\ cpc' = "done"
    /\ UNCHANGED <<text, chunk_size, chunk_overlap, start_index, chunk_id, chunks>>
    /\ UNCHANGED <<annotVars, splitVars, cleanseVars, lookupVars, mainVars>>

NextChunk ==
    \/ ChunkStep
    \/ ChunkReturn

\* The initial states of SpecChunk: the other parts of the model stay idle.
StartChunk ==
    InitChunk /\ IdleAnnot /\ IdleSplit /\ IdleCleanse /\ IdleLookup /\ IdleMain

\* The function runs to its end once called: a sequential program.
SpecChunk ==
    /\ StartChunk
    /\ [][NextChunk]_vars
    /\ WF_vars(NextChunk)

OverlapInRange == 0 < chunk_overlap /\ chunk_overlap < chunk_size

\* C5: with 0 < O < W the start index strictly increases on every iteration
\* and the loop exits after finitely many windows.
C5_Terminates ==
    /\ [][OverlapInRange /\ chunks' # chunks => start_index' > start_index]_vars
    /\ (OverlapInRange => <>(cpc = "done"))

\* A call with 0 < O < W has returned after three windows or more.
C5_Witness == OverlapInRange /\ cpc = "done" /\ Len(chunks) >= 3

\* Python s[k:] for k >= 0.
DropFirst(s, k) == SubSeq(s, k + 1, Len(s))

\* Python s[-k:] for 0 < k: the last k characters, the whole of a shorter s.
LastChars(s, k) == SubSeq(s, Len(s) - Min(k, Len(s)) + 1, Len(s))

\* Python s[:k].
FirstChars(s, k) == SubSeq(s, 1, Min(k, Len(s)))

\* The first window whole, then every later window without its first O
\* characters, concatenated in id order.
RECURSIVE Rebuild(_, _)
Rebuild(cs, k) ==
    IF k > Len(cs) THEN <<>>
    ELSE (IF k = 1 THEN cs[k].text ELSE DropFirst(cs[k].text, chunk_overlap))
         \o Rebuild(cs, k + 1)

\* C6: with 0 < O < W the windows rebuild the original text.
C6_Reconstructs ==
    OverlapInRange /\ cpc = "done" => Rebuild(chunks, 1) = text

\* A call with 0 < O < W has returned windows of which the last is shorter than O.
C6_Witness ==
    /\ OverlapInRange /\ cpc = "done" /\ Len(chunks) >= 3
    /\ Len(chunks[Len(chunks)].text) < chunk_overlap

\* C7 as stated: with 0 < O < W the last O characters of every window are
\* the first O characters of the next window, the final pair included.
C7_ConsecutiveWindowsShareOverlap ==
    OverlapInRange =>
        \A k \in 1..(Len(chunks) - 1) :
            /\ Len(chunks[k].text) >= chunk_overlap
            /\ Len(chunks[k + 1].text) >= chunk_overlap
            /\ LastChars(chunks[k].text, chunk_overlap)
                   = FirstChars(chunks[k + 1].text, chunk_overlap)

\* The offsets 0, W-O, 2(W-O), ... that satisfy the bound.
OffsetsUpTo(bound) ==
    {k \in 0..Len(text) : k * (chunk_size - chunk_overlap) <= bound}

\* The ids are 1, 2, 3, ... and window k is the one cut at offset (k-1)(W-O).
IdsAndOffsets ==
    \A k \in 1..Len(chunks) :
        /\ chunks[k].chunk_id = k
        /\ chunks[k].text = Slice(text, (k - 1) * (chunk_size - chunk_overlap),
                                  (k - 1) * (chunk_size - chunk_overlap) + chunk_size)

\* C8 as stated: ids and offsets as above, and (for a text that is not empty)
\* a window for every offset that does not exceed the length of the text.
C8_WindowPerOffsetUpToLength ==
    /\ IdsAndOffsets
    /\ cpc = "done" /\ text # <<>> => Len(chunks) = Cardinality(OffsetsUpTo(Len(text)))

\* C8 amended: ids and offsets as above, and a window for every offset
\* strictly below the length of the text (none at the length itself).
C8_WindowPerOffsetBelowLength ==
    /\ IdsAndOffsets
    /\ cpc = "done" => Len(chunks) = Cardinality(OffsetsUpTo(Len(text) - 1))

\* A call has returned and an offset of the progression equals the length
\* of the text.
C8_Witness ==
    /\ cpc = "done" /\ Len(chunks) >= 2
    /\ (Len(chunks) * (chunk_size - chunk_overlap)) = Len(text)

(***************************************************************************)
(*              gemini_analyzer.split_text_by_player                       *)
(*                                                                         *)
(* The text is a sequence of lexemes:                                      *)
(*   "T"  a position tag, one of QB, RB, WR, TE                            *)
(*   "s"  one whitespace character                                         *)
(*   "U"  a capitalised word ([A-Z] followed by letters)                   *)
(*   "R"  the literal "RSP Scouting Profile"                               *)
(*   "d"  a character outside [a-zA-Z\s'.-] (a digit, a colon, ...)        *)
(* T, U and R are made of letters and blanks, so all three may start a     *)
(* captured name and all three, like "s", may continue one.                *)
(***************************************************************************)

\* Most pieces a text is made of.
MaxPieces == 5

\* The pieces texts are made of: a whole header, a tag with the blank after
\* it, a word, a blank with the header's closing literal, a blank, another
\* character.
Pieces == { <<"T", "s", "U", "s", "R">>, <<"T", "s">>, <<"U">>, <<"s", "R">>,
            <<"s">>, <<"d">> }

RECURSIVE Flatten(_)
Flatten(ps) == IF ps = <<>> THEN <<>> ELSE Head(ps) \o Flatten(Tail(ps))

\* "[A-Z]" can match the first character of these lexemes.
NameStart == {"T", "U", "R"}
\* "[a-zA-Z\s'\.-]" matches every character of these lexemes.
NameClass == {"T", "U", "R", "s"}

\* The first position at or after p that holds no whitespace (Len + 1 if none).
RECURSIVE SkipSpaces(_, _)
SkipSpaces(txt, p) ==
    IF p <= Len(txt) /\ txt[p] = "s" THEN SkipSpaces(txt, p + 1) ELSE p

\* "\s+RSP Scouting Profile" matches right after position q.
SuffixAfter(txt, q) ==
    /\ q + 1 <= Len(txt) /\ txt[q + 1] = "s"
    /\ SkipSpaces(txt, q + 1) <= Len(txt)
    /\ txt[SkipSpaces(txt, q + 1)] = "R"

\* The positions a name that begins at from may end at.
NameEnds(txt, from) ==
    {q \in from..Len(txt) :
        /\ \A k \in from..q : txt[k] \in NameClass
        /\ SuffixAfter(txt, q)}

SetMin(S) == CHOOSE x \in S : \A y \in S : x <= y

NoMatch == [found |-> FALSE, start |-> 0, nameFrom |-> 0, nameTo |-> 0, end |-> 0]

\* PLAYER_HEADER_REGEX matched at position p: the tag, "\s+" (all the blanks,
\* as a name starts with a capital), the shortest name ("+?") that the
\* rest of the pattern can follow, "\s+" and the closing literal.
MatchAt(txt, p) ==
    IF /\ p <= Len(txt) /\ txt[p] = "T"
       /\ p + 1 <= Len(txt) /\ txt[p + 1] = "s"
       /\ SkipSpaces(txt, p + 1) <= Len(txt)
       /\ txt[SkipSpaces(txt, p + 1)] \in NameStart
       /\ NameEnds(txt, SkipSpaces(txt, p + 1)) # {}
    THEN LET from == SkipSpaces(txt, p + 1)
             to == SetMin(NameEnds(txt, from))
         IN [found |-> TRUE, start |-> p, nameFrom |-> from, nameTo |-> to,
             end |-> SkipSpaces(txt, to + 1)]
    ELSE NoMatch

\* The leftmost match that starts at or after p.
RECURSIVE SearchFrom(_, _)
SearchFrom(txt, p) ==
    IF p > Len(txt) THEN NoMatch
    ELSE IF MatchAt(txt, p).found THEN MatchAt(txt, p)
    ELSE SearchFrom(txt, p + 1)

\* The non-overlapping matches of the pattern, left to right (re.finditer).
RECURSIVE MatchesFrom(_, _)
MatchesFrom(txt, p) ==
    LET m == SearchFrom(txt, p)
    IN IF m.found THEN <<m>> \o MatchesFrom(txt, m.end + 1) ELSE <<>>

\* full_pattern.split(text): the text before the first match, then for each
\* match its captured group and the text up to the next match (or the end).
RECURSIVE SplitFrom(_, _)
SplitFrom(txt, p) ==
    LET m == SearchFrom(txt, p)
    IN IF m.found
          THEN << SubSeq(txt, p, m.start - 1), SubSeq(txt, m.nameFrom, m.nameTo) >>
               \o SplitFrom(txt, m.end + 1)
          ELSE << SubSeq(txt, p, Len(txt)) >>

ReSplit(txt) == SplitFrom(txt, 1)

\* str.strip(): without the leading and trailing whitespace.
RECURSIVE LStrip(_)
LStrip(str) == IF str # <<>> /\ Head(str) = "s" THEN LStrip(Tail(str)) ELSE str
RECURSIVE RStrip(_)
RStrip(str) ==
    IF str # <<>> /\ str[Len(str)] = "s" THEN RStrip(SubSeq(str, 1, Len(str) - 1))
    ELSE str
Strip(str) == RStrip(LStrip(str))

\* Mutant: the body is taken as it stands.
PlayerText_Unstripped(part) == part

\* "player_text = parts[i+1].strip()"
PlayerText(part) == Strip(part)

\* "for i in range(1, len(parts), 2)": the first index of the loop.
FirstNameIndex == 1

\* The loop over parts; k is the 0-based index i of the source.
RECURSIVE ProfilesFrom(_, _)
ProfilesFrom(parts, k) ==
    IF k >= Len(parts) THEN <<>>
    ELSE << [player_name |-> Strip(parts[k + 1]),
             text |-> IF k + 1 < Len(parts) THEN PlayerText(parts[k + 2]) ELSE <<>>] >>
         \o ProfilesFrom(parts, k + 2)

split_text_by_player(txt) ==
    LET parts == ReSplit(txt)
    IN IF Len(parts) > 1 THEN ProfilesFrom(parts, FirstNameIndex) ELSE <<>>

InitSplit ==
    /\ \E k \in 0..MaxPieces : \E ps \in [1..k -> Pieces] : section_text = Flatten(ps)
    /\ player_profiles = <<>>
    /\ spc = "start"

\* main: player_profiles = split_text_by_player(section_text, PLAYER_HEADER_REGEX)
SplitByPlayer ==
    /\ spc = "start"
    /\ player_profiles' = split_text_by_player(section_text)
    /\ spc' = "done"
    /\ UNCHANGED section_text
    /\ UNCHANGED <<annotVars, chunkVars, cleanseVars, lookupVars, mainVars>>

NextSplit == SplitByPlayer

\* The initial states of SpecSplit: the other parts of the model stay idle.
StartSplit ==
    InitSplit /\ IdleAnnot /\ IdleChunk /\ IdleCleanse /\ IdleLookup /\ IdleMain

SpecSplit ==
    /\ StartSplit
    /\ [][NextSplit]_vars

\* The header matches of the text.
Headers == MatchesFrom(section_text, 1)

\* The name captured by the k-th match.
Captured(k) == SubSeq(section_text, Headers[k].nameFrom, Headers[k].nameTo)

\* The text between the end of the k-th match and the start of the next match
\* (or the end of the text).
BodyAfter(k) ==
    SubSeq(section_text, Headers[k].end + 1,
           IF k < Len(Headers) THEN Headers[k + 1].start - 1 ELSE Len(section_text))

\* C9 as stated: one profile per match, in order; the k-th profile carries
\* the k-th captured name and, as body, the text between the k-th match and
\* the next one (or the end); no body contains a header; no match, no profile.
C9_ProfilePerHeader ==
    spc = "done" =>
        /\ Len(player_profiles) = Len(Headers)
        /\ \A k \in 1..Len(player_profiles) :
             /\ player_profiles[k].player_name = Captured(k)
             /\ player_profiles[k].text = BodyAfter(k)
             /\ MatchesFrom(player_profiles[k].text, 1) = <<>>

\* C9 amended: as stated, with the name and the body each stripped of their
\* leading and trailing whitespace.
C9_ProfilePerHeaderStripped ==
    spc = "done" =>
        /\ Len(player_profiles) = Len(Headers)
        /\ \A k \in 1..Len(player_profiles) :
             /\ player_profiles[k].player_name = Strip(Captured(k))
             /\ player_profiles[k].text = Strip(BodyAfter(k))
             /\ MatchesFrom(player_profiles[k].text, 1) = <<>>

\* A text that does not begin with a header was split into two profiles, the
\* first with a body that is not empty and is shorter than the text between
\* the two headers.
C9_Witness ==
    /\ spc = "done"
    /\ Len(player_profiles) = 2
    /\ Headers[1].start > 1
    /\ player_profiles[1].text # <<>>
    /\ player_profiles[1].text # BodyAfter(1)

\* C14: analyze_players_with_gemini returns exactly one record per input
\* profile, in the input order, and writes each profile's analysis exactly
\* once. At every moment the returned list holds the profiles 1, 2, ... in
\* order, no profile's analysis has been written twice, a profile holds an
\* analysis exactly when it was written once, every profile the loop has left
\* was written once, and at the return the list holds all n profiles.
C14_OneRecordOneWritePerProfile ==
    variant = "profile" =>
        /\ \A k \in 1..Len(analyzed_players) : analyzed_players[k] = k
        /\ \A u \in 1..n :
              /\ writes[u] <= 1
              /\ (writes[u] = 1) <=> (analysis[u] # NoAnalysis)
              /\ (writes[u] = 1) <=> InProfileOutput(u)
              /\ u \in Completed => writes[u] = 1
        /\ pc = "done" => analyzed_players = [k \in 1..n |-> k]

\* A run over at least three profiles has returned; one profile was rate
\* limited and failed again on the retry, the others succeeded at once, and
\* every profile was written once.
C14_Witness ==
    /\ variant = "profile" /\ pc = "done" /\ n >= 3
    /\ analyzed_players = [k \in 1..n |-> k]
    /\ \E u \in 2..n :
          /\ first[u] = "rate" /\ second[u] = "err"
          /\ analysis[u] = ErrorAfterRetry
          /\ writes[u] = 1
          /\ \A v \in (1..n) \ {u} :
                first[v] = "ok" /\ analysis[v] = ResponseText(1) /\ writes[v] = 1

(***************************************************************************)
(*              consolidate_analysis.cleanse_name                          *)
(*                                                                         *)
(* A name is a sequence of characters: letters, the space, the tab and a   *)
(* punctuation mark.                                                       *)
(***************************************************************************)

\* Longest name, in characters.
MaxNameLen == 5

Alphabet == {"i", "v", "j", "r", "s", "V", " ", "\t", "."}

\* "\s" matches the character.
IsWhitespace(c) == c \in {" ", "\t"}

\* "[\w\s']" matches the character: it survives the first re.sub. Of the
\* characters of the model (letters, space, tab, apostrophe, full stop) only
\* the full stop does not.
IsKept(c) == c # "."

\* str.lower(), one character; the upper-case letters of the model are V, C,
\* W and J.
LowerChar(c) ==
    CASE c = "V" -> "v"
      [] c = "C" -> "c"
      [] c = "W" -> "w"
      [] c = "J" -> "j"
      [] OTHER -> c

Lower(str) == [k \in 1..Len(str) |-> LowerChar(str[k])]

\* "suffixes_to_remove = [' iii', ' iv', ' ii', ' jr', ' sr', ' v']"
suffixes_to_remove ==
    << <<" ", "i", "i", "i">>, <<" ", "i", "v">>, <<" ", "i", "i">>,
       <<" ", "j", "r">>, <<" ", "s", "r">>, <<" ", "v">> >>

\* str.endswith(suffix)
EndsWith(str, suffix) ==
    /\ Len(str) >= Len(suffix)
    /\ SubSeq(str, Len(str) - Len(suffix) + 1, Len(str)) = suffix

\* str.strip() on characters.
RECURSIVE LStripChars(_)
LStripChars(str) ==
    IF str # <<>> /\ IsWhitespace(Head(str)) THEN LStripChars(Tail(str)) ELSE str
RECURSIVE RStripChars(_)
RStripChars(str) ==
    IF str # <<>> /\ IsWhitespace(str[Len(str)])
       THEN RStripChars(SubSeq(str, 1, Len(str) - 1))
       ELSE str
StripChars(str) == RStripChars(LStripChars(str))

\* A loop that starts over after every removal, until no suffix is left at the
\* end of the name.
RECURSIVE RemoveSuffixFrom_Repeated(_, _)
RemoveSuffixFrom_Repeated(str, k) ==
    IF k > Len(suffixes_to_remove) THEN str
    ELSE IF EndsWith(str, suffixes_to_remove[k])
            THEN RemoveSuffixFrom_Repeated(
                     StripChars(SubSeq(str, 1, Len(str) - Len(suffixes_to_remove[k]))), 1)
            ELSE RemoveSuffixFrom_Repeated(str, k + 1)

\* The for loop over suffixes_to_remove, from the k-th suffix on: the first
\* suffix the name ends with is cut off, the rest stripped, and the loop left.
RECURSIVE RemoveSuffixFrom(_, _)
RemoveSuffixFrom(str, k) ==
    IF k > Len(suffixes_to_remove) THEN str
    ELSE IF EndsWith(str, suffixes_to_remove[k])
            THEN StripChars(SubSeq(str, 1, Len(str) - Len(suffixes_to_remove[k])))
            ELSE RemoveSuffixFrom(str, k + 1)

\* re.sub(r"[^\w\s']", '', cleaned_name)
RECURSIVE RemovePunctuation(_)
RemovePunctuation(str) ==
    IF str = <<>> THEN <<>>
    ELSE (IF IsKept(Head(str)) THEN <<Head(str)>> ELSE <<>>)
         \o RemovePunctuation(Tail(str))

\* re.sub(r'\s+', ' ', cleaned_name): every run of whitespace becomes one space.
RECURSIVE CollapseWhitespace(_)
CollapseWhitespace(str) ==
    IF str = <<>> THEN <<>>
    ELSE IF IsWhitespace(Head(str))
            THEN <<" ">> \o CollapseWhitespace(LStripChars(str))
            ELSE <<Head(str)>> \o CollapseWhitespace(Tail(str))

cleanse_name(str) ==
    StripChars(CollapseWhitespace(RemovePunctuation(RemoveSuffixFrom(Lower(str), 1))))

InitCleanse ==
    /\ \E len \in 0..MaxNameLen : name \in [1..len -> Alphabet]
    /\ cleaned_once = <<>>
    /\ cleaned_twice = <<>>
    /\ npc = "start"

\* cleanse_name(name)
CleanseOnce ==
    /\ npc = "start"
    /\ cleaned_once' = cleanse_name(name)
    /\ npc' = "once"
    /\ UNCHANGED <<name, cleaned_twice>>
    /\ UNCHANGED <<annotVars, chunkVars, splitVars, lookupVars, mainVars>>

\* cleanse_name applied to a cleansed name
CleanseAgain ==
    /\ npc = "once"
    /\ cleaned_twice' = cleanse_name(cleaned_once)
    /\ npc' = "twice"
    /\ UNCHANGED <<name, cleaned_once>>
    /\ UNCHANGED <<annotVars, chunkVars, splitVars, lookupVars, mainVars>>

NextCleanse ==
    \/ CleanseOnce
    \/ CleanseAgain

\* The initial states of SpecCleanse: the other parts of the model stay idle.
StartCleanse ==
    InitCleanse /\ IdleAnnot /\ IdleChunk /\ IdleSplit /\ IdleLookup /\ IdleMain

SpecCleanse ==
    /\ StartCleanse
    /\ [][NextCleanse]_vars

\* C10 as stated: cleansing a cleansed name returns it unchanged.
C10_Idempotent == npc = "twice" => cleaned_twice = cleaned_once

\* The longest prefix of str without whitespace.
RECURSIVE FirstWord(_)
FirstWord(str) ==
    IF str = <<>> \/ IsWhitespace(Head(str)) THEN <<>>
    ELSE <<Head(str)>> \o FirstWord(Tail(str))

\* The whitespace-separated words of str, in order.
RECURSIVE Words(_)
Words(str) ==
    LET rest == LStripChars(str)
    IN  IF rest = <<>> THEN <<>>
        ELSE <<FirstWord(rest)>>
             \o Words(SubSeq(rest, Len(FirstWord(rest)) + 1, Len(rest)))

\* The words joined by single spaces.
RECURSIVE JoinWords(_)
JoinWords(ws) ==
    IF ws = <<>> THEN <<>>
    ELSE IF Len(ws) = 1 THEN ws[1]
    ELSE ws[1] \o <<" ">> \o JoinWords(Tail(ws))

\* The words without their punctuation; a word of punctuation only disappears.
WithoutPunctuation(ws) ==
    SelectSeq([k \in 1..Len(ws) |-> RemovePunctuation(ws[k])],
              LAMBDA w : w # <<>>)

ButLast(ws) == SubSeq(ws, 1, Len(ws) - 1)

\* The honorific suffixes as words: "iii", "iv", "ii", "jr", "sr", "v".
SuffixWords == { Tail(suffixes_to_remove[k]) : k \in 1..Len(suffixes_to_remove) }

\* The position in suffixes_to_remove of the first suffix str ends with, 0 if
\* there is none.
FirstMatching(str) ==
    LET hits == { k \in 1..Len(suffixes_to_remove) :
                     EndsWith(str, suffixes_to_remove[k]) }
    IN  IF hits = {} THEN 0 ELSE SetMin(hits)

\* C11: one call of cleanse_name keeps the words of the lowercased name in
\* their order and removes at most one of them: either no word is removed, or
\* exactly the final word is, and then that word is the first suffix of
\* suffixes_to_remove that the lowercased name ends with. No word is removed
\* from the middle or the start, and never two.
C11_AtMostOneFinalSuffix ==
    npc # "start" =>
        LET W == Words(Lower(name))
            m == FirstMatching(Lower(name))
        IN  \/ cleaned_once = JoinWords(WithoutPunctuation(W))
            \/ /\ W # <<>>
               /\ cleaned_once = JoinWords(WithoutPunctuation(ButLast(W)))
               /\ W[Len(W)] \in SuffixWords
               /\ m # 0
               /\ W[Len(W)] = Tail(suffixes_to_remove[m])

\* A name of three words whose last two are both suffixes has been cleansed:
\* only the last one is gone.
C11_Witness ==
    /\ npc = "once"
    /\ LET W == Words(Lower(name))
       IN  /\ Len(W) = 3
           /\ W[2] \in SuffixWords
           /\ W[3] \in SuffixWords
           /\ cleaned_once = JoinWords(<<W[1], W[2]>>)
           /\ cleaned_once # JoinWords(WithoutPunctuation(W))

(***************************************************************************)
(*              consolidate_analysis.create_analysis_lookup                *)
(*                                                                         *)
(* A record is a dict with the keys "player_name" and "analysis". A name   *)
(* is a sequence of characters, the empty sequence standing for a missing  *)
(* or empty name; an analysis text is a positive number, 0 standing for a  *)
(* missing or empty text. Each record of an input carries its own text,    *)
(* the number of its position.                                             *)
(***************************************************************************)

\* Longest list passed to create_analysis_lookup.
MaxRecords == 3

CamWard == <<"c", "a", "m", " ", "w", "a", "r", "d">>
CameronWard == <<"c", "a", "m", "e", "r", "o", "n", " ", "w", "a", "r", "d">>
HoraceBruMccoy ==
    <<"h", "o", "r", "a", "c", "e", " ", "b", "r", "u", " ", "m", "c", "c", "o", "y">>
BruMccoy == <<"b", "r", "u", " ", "m", "c", "c", "o", "y">>

\* PLAYER_NAME_ALIASES = {"cam ward": "cameron ward",
\*                        "horace bru mccoy": "bru mccoy"}
PLAYER_NAME_ALIASES ==
    [key \in {CamWard, HoraceBruMccoy} |->
        IF key = CamWard THEN CameronWard ELSE BruMccoy]

\* The names of the records: none, ".", "V", "Cam Ward", "cameron ward",
\* "Cam Ward Jr" and "horace bru mccoy".
RecordNames ==
    { <<>>, <<".">>, <<"V">>,
      <<"C", "a", "m", " ", "W", "a", "r", "d">>,
      CameronWard,
      <<"C", "a", "m", " ", "W", "a", "r", "d", " ", "J", "r">>,
      HoraceBruMccoy }

Rec(nm, an) == [player_name |-> nm, analysis |-> an]

\* The key a record's name is stored under: the cleansed name, or the alias
\* of the cleansed name when the table has one.
final_key_name(player_name) ==
    LET cleaned_name == cleanse_name(player_name)
    IN  IF cleaned_name \in DOMAIN PLAYER_NAME_ALIASES
           THEN PLAYER_NAME_ALIASES[cleaned_name]
           ELSE cleaned_name

\* A dict assignment that keeps the value a key already has.
SetItem_KeepFirst(map, key, value) ==
    [k \in DOMAIN map \cup {key} |-> IF k \in DOMAIN map THEN map[k] ELSE value]

\* "lookup_map[final_key_name] = analysis_text"
SetItem(map, key, value) ==
    [k \in DOMAIN map \cup {key} |-> IF k = key THEN value ELSE map[k]]

\* "if player_name and analysis_text"
HasNameAndAnalysis(item) == item.player_name # <<>> /\ item.analysis # 0

InitLookup ==
    /\ \E len \in 0..MaxRecords :
          player_analyses \in
              { [k \in 1..len |-> Rec(nms[k], IF has[k] THEN k ELSE 0)] :
                    nms \in [1..len -> RecordNames], has \in [1..len -> BOOLEAN] }
    /\ lookup_map = EmptyMap
    /\ lidx = 0
    /\ lpc = "call"

\* "if not player_analyses: return {}", else "lookup_map = {}" and the loop.
LookupEnter ==
    /\ lpc = "call"
    /\ lookup_map' = EmptyMap
    /\ IF player_analyses = <<>>
          THEN lpc' = "done" /\ lidx' = lidx
          ELSE lpc' = "loop" /\ lidx' = 1
    /\ UNCHANGED player_analyses
    /\ UNCHANGED <<annotVars, chunkVars, splitVars, cleanseVars, mainVars>>

\* One iteration of "for item in player_analyses".
LookupStep ==
    /\ lpc = "loop" /\ lidx <= Len(player_analyses)
    /\ LET item == player_analyses[lidx]
       IN  lookup_map' =
               IF HasNameAndAnalysis(item)
                  THEN SetItem(lookup_map, final_key_name(item.player_name),
                               item.analysis)
                  ELSE lookup_map
    /\ lidx' = lidx + 1
    /\ UNCHANGED <<player_analyses, lpc>>
    /\ UNCHANGED <<annotVars, chunkVars, splitVars, cleanseVars, mainVars>>

\* "return lookup_map" after the loop.
LookupReturn ==
    /\ lpc = "loop" /\ lidx > Len(player_analyses)
    /\ lpc' = "done"
    /\ UNCHANGED <<player_analyses, lookup_map, lidx>>
    /\ UNCHANGED <<annotVars, chunkVars, splitVars, cleanseVars, mainVars>>

NextLookup ==
    \/ LookupEnter
    \/ LookupStep
    \/ LookupReturn

\* The initial states of SpecLookup: the other parts of the model stay idle.
StartLookup ==
    InitLookup /\ IdleAnnot /\ IdleChunk /\ IdleSplit /\ IdleCleanse /\ IdleMain

SpecLookup ==
    /\ StartLookup
    /\ [][NextLookup]_vars

SetMax(S) == CHOOSE x \in S : \A y \in S : y <= x

\* The positions of the records with a non-empty name and analysis.
UsedRecords == { k \in 1..Len(player_analyses) : HasNameAndAnalysis(player_analyses[k]) }

\* The final key of the record at position k.
KeyOfRecord(k) == final_key_name(player_analyses[k].player_name)

\* C12: once create_analysis_lookup has returned, the keys of the map are
\* exactly the final keys of the records with a non-empty name and analysis,
\* and each key's value is the analysis of the last of the records with that
\* final key (so two or more records with one final key leave one entry, that
\* of the last of them).
C12_LastRecordWins ==
    lpc = "done" =>
        /\ DOMAIN lookup_map = { KeyOfRecord(k) : k \in UsedRecords }
        /\ \A key \in DOMAIN lookup_map :
              lookup_map[key] =
                  player_analyses[SetMax({ k \in UsedRecords : KeyOfRecord(k) = key })].analysis

\* create_analysis_lookup has returned for three records with a name and an
\* analysis: the first and the last have different names and one final key,
\* the second has another key; the map holds two entries and the shared key
\* holds the last record's analysis.
C12_Witness ==
    /\ lpc = "done"
    /\ Len(player_analyses) = 3
    /\ UsedRecords = {1, 2, 3}
    /\ player_analyses[1].player_name # player_analyses[3].player_name
    /\ KeyOfRecord(1) = KeyOfRecord(3)
    /\ KeyOfRecord(2) # KeyOfRecord(3)
    /\ KeyOfRecord(3) = CameronWard
    /\ Cardinality(DOMAIN lookup_map) = 2
    /\ lookup_map[CameronWard] = 3

(***************************************************************************)
(*                    consolidate_analysis.main                            *)
(*                                                                         *)
(* A file of the directory has a name that ends with                       *)
(* "_player_analysis.json" or not, and a content: a JSON list of records,  *)
(* another JSON value, or something json.load raises on.                   *)
(***************************************************************************)

\* Most files in the directory, and most records in one file.
MaxFiles == 2
MaxFileRecords == 2

File(matches, content, items) ==
    [matches |-> matches, content |-> content, items |-> items]

\* The records of the files: one with a name and an analysis, one without
\* analysis, one without name.
FileRecords == { Rec(<<"V">>, 1), Rec(<<"V">>, 0), Rec(<<>>, 1) }

Files ==
    { File(FALSE, "other", <<>>), File(TRUE, "other", <<>>), File(TRUE, "broken", <<>>) }
    \cup UNION { { File(TRUE, "list", items) : items \in [1..len -> FileRecords] } :
                    len \in 0..MaxFileRecords }

InitMain ==
    /\ \E cnt \in 0..MaxFiles : directory \in [1..cnt -> Files]
    /\ fidx = 0
    /\ all_player_analyses = <<>>
    /\ all_analyses = NoneValue
    /\ output_written = FALSE
    /\ mpc = "listdir"

\* "all_player_analyses = []" and os.listdir: the listing, or
\* "except FileNotFoundError: return None".
ConsolidateListdir ==
    /\ mpc = "listdir"
    /\ all_player_analyses' = <<>>
    /\ \E found \in BOOLEAN :
          IF found
             THEN mpc' = "read" /\ fidx' = 1 /\ all_analyses' = all_analyses
             ELSE mpc' = "returned" /\ fidx' = fidx /\ all_analyses' = NoneValue
    /\ UNCHANGED <<directory, output_written>>
    /\ UNCHANGED <<annotVars, chunkVars, splitVars, cleanseVars, lookupVars>>

\* One iteration of "for filename in os.listdir(...)": a file without the
\* suffix is passed over, a list extends all_player_analyses, another JSON
\* value is skipped with a warning, and an exception returns None.
ConsolidateReadFile ==
    /\ mpc = "read" /\ fidx <= Len(directory)
    /\ LET file == directory[fidx]
       IN  IF file.matches /\ file.content = "broken"
              THEN /\ all_analyses' = NoneValue
                   /\ mpc' = "returned"
                   /\ UNCHANGED <<fidx, all_player_analyses>>
              ELSE /\ all_player_analyses' =
                          IF file.matches /\ file.content = "list"
                             THEN all_player_analyses \o file.items
                             ELSE all_player_analyses
                   /\ fidx' = fidx + 1
                   /\ UNCHANGED <<all_analyses, mpc>>
    /\ UNCHANGED <<directory, output_written>>
    /\ UNCHANGED <<annotVars, chunkVars, splitVars, cleanseVars, lookupVars>>

\* "return all_player_analyses"
ConsolidateReturn ==
    /\ mpc = "read" /\ fidx > Len(directory)
    /\ all_analyses' = ListValue(all_player_analyses)
    /\ mpc' = "returned"
    /\ UNCHANGED <<directory, fidx, all_player_analyses, output_written>>
    /\ UNCHANGED <<annotVars, chunkVars, splitVars, cleanseVars, lookupVars>>

\* "if all_analyses": neither None nor an empty list.
HasAnalyses(value) == ~value.none /\ value.list # <<>>

\* "if all_analyses: analysis_lookup = create_analysis_lookup(all_analyses)",
\* else the message that no data was found.
MainAfterConsolidate ==
    /\ mpc = "returned"
    /\ IF HasAnalyses(all_analyses)
          THEN /\ player_analyses' = all_analyses.list
               /\ lpc' = "call"
               /\ mpc' = "lookup"
          ELSE /\ mpc' = "done"
               /\ UNCHANGED <<player_analyses, lpc>>
    /\ UNCHANGED <<lookup_map, lidx>>
    /\ UNCHANGED <<directory, fidx, all_player_analyses, all_analyses, output_written>>
    /\ UNCHANGED <<annotVars, chunkVars, splitVars, cleanseVars>>

\* A main that saves whatever map it built.
ShouldSave_Always(map) == TRUE

\* "if analysis_lookup": the dict has an entry.
ShouldSave(map) == DOMAIN map # {}

\* "if analysis_lookup: save_consolidated_analysis(...)": the file is written
\* unless open or json.dump raises.
MainAfterLookup ==
    /\ mpc = "lookup" /\ lpc = "done"
    /\ IF ShouldSave(lookup_map)
          THEN \E saved \in BOOLEAN : output_written' = saved
          ELSE output_written' = output_written
    /\ mpc' = "done"
    /\ UNCHANGED <<directory, fidx, all_player_analyses, all_analyses>>
    /\ UNCHANGED <<annotVars, chunkVars, splitVars, cleanseVars, lookupVars>>

NextMain ==
    \/ ConsolidateListdir
    \/ ConsolidateReadFile
    \/ ConsolidateReturn
    \/ MainAfterConsolidate
    \/ LookupEnter
    \/ LookupStep
    \/ LookupReturn
    \/ MainAfterLookup

\* The initial states of SpecMain: the other parts of the model stay idle.
\* create_analysis_lookup has not been called yet.
StartMain ==
    InitMain /\ IdleLookup /\ IdleAnnot /\ IdleChunk /\ IdleSplit /\ IdleCleanse

SpecMain ==
    /\ StartMain
    /\ [][NextMain]_vars

\* No file of the directory has the suffix "_player_analysis.json".
NoMatchingFile == \A k \in 1..Len(directory) : ~directory[k].matches

\* C13: consolidated_analysis.json is written only if the lookup map built in
\* the run has at least one entry; and when no file of the directory has the
\* suffix, the run collects no record and ends without writing the file.
C13_WrittenOnlyWithEntries ==
    /\ output_written => DOMAIN lookup_map # {}
    /\ NoMatchingFile =>
          /\ all_player_analyses = <<>>
          /\ ~output_written
          /\ mpc = "done" => ~HasAnalyses(all_analyses) /\ lpc = "idle"

\* A run over a listed directory of two files, neither with the suffix, has
\* ended: nothing was collected and nothing written.
C13_Witness ==
    /\ mpc = "done"
    /\ Len(directory) = 2
    /\ NoMatchingFile
    /\ fidx = 3
    /\ all_analyses = ListValue(<<>>)
    /\ ~output_written

====
